---- MODULE Spec2Model ----
(***************************************************************************)
(* Model of multi_agent.py: a voice agent with two personas (IntroAgent    *)
(* and StoryAgent) that hand a session over through function tools, the    *)
(* session bootstrap (entrypoint), the module-level validation of the      *)
(* environment and the CLI entry point with its auxiliary health server.   *)
(*                                                                         *)
(* Python strings are sequences of one-character strings, so that          *)
(* f-string interpolation is concatenation and "contains" is a search.     *)
(* Optional[T] is a sequence of length 0 (None) or 1 (the value).          *)
(***************************************************************************)
EXTENDS FiniteSets, Integers, Sequences, TLC

\* ---- bounds ----
MaxNameLen == 2
MaxLocLen == 1
MaxCalls == 2

\* characters of the arguments: neither occurs in the fixed instruction text
NameChars == {"A"}
LocChars == {"L"}

\* ---- Optional ----
None == << >>
Some(v) == << v >>

\* ---- string literals of the source ----
common_instructions ==
  <<
     "Y", "o", "u", "r", " ", "n", "a", "m", "e", " ", "i", "s", " ", "E", "c", "h",
     "o", ".", " ", "Y", "o", "u", " ", "a", "r", "e", " ", "a", " ", "s", "t", "o",
     "r", "y", " ", "t", "e", "l", "l", "e", "r", " ", "t", "h", "a", "t", " ", "i",
     "n", "t", "e", "r", "a", "c", "t", "s", " ", "w", "i", "t", "h", " ", "t", "h",
     "e", " ", "u", "s", "e", "r", " ", "v", "i", "a", " ", "v", "o", "i", "c", "e",
     ".", "Y", "o", "u", " ", "a", "r", "e", " ", "c", "u", "r", "i", "o", "u", "s",
     " ", "a", "n", "d", " ", "f", "r", "i", "e", "n", "d", "l", "y", ",", " ", "w",
     "i", "t", "h", " ", "a", " ", "s", "e", "n", "s", "e", " ", "o", "f", " ", "h",
     "u", "m", "o", "r", "." >>

IntroTail ==
  <<
     " ", "Y", "o", "u", "r", " ", "g", "o", "a", "l", " ", "i", "s", " ", "t", "o",
     " ", "g", "a", "t", "h", "e", "r", " ", "a", " ", "f", "e", "w", " ", "p", "i",
     "e", "c", "e", "s", " ", "o", "f", " ", "i", "n", "f", "o", "r", "m", "a", "t",
     "i", "o", "n", " ", "f", "r", "o", "m", " ", "t", "h", "e", " ", "u", "s", "e",
     "r", " ", "t", "o", " ", "m", "a", "k", "e", " ", "t", "h", "e", " ", "s", "t",
     "o", "r", "y", " ", "p", "e", "r", "s", "o", "n", "a", "l", "i", "z", "e", "d",
     " ", "a", "n", "d", " ", "e", "n", "g", "a", "g", "i", "n", "g", ".", "Y", "o",
     "u", " ", "s", "h", "o", "u", "l", "d", " ", "a", "s", "k", " ", "t", "h", "e",
     " ", "u", "s", "e", "r", " ", "f", "o", "r", " ", "t", "h", "e", "i", "r", " ",
     "n", "a", "m", "e", " ", "a", "n", "d", " ", "w", "h", "e", "r", "e", " ", "t",
     "h", "e", "y", " ", "a", "r", "e", " ", "f", "r", "o", "m", ".", "S", "t", "a",
     "r", "t", " ", "t", "h", "e", " ", "c", "o", "n", "v", "e", "r", "s", "a", "t",
     "i", "o", "n", " ", "w", "i", "t", "h", " ", "a", " ", "s", "h", "o", "r", "t",
     " ", "i", "n", "t", "r", "o", "d", "u", "c", "t", "i", "o", "n", "." >>

StoryMiddle ==
  <<
     ".", " ", "Y", "o", "u", " ", "s", "h", "o", "u", "l", "d", " ", "u", "s", "e",
     " ", "t", "h", "e", " ", "u", "s", "e", "r", "'", "s", " ", "i", "n", "f", "o",
     "r", "m", "a", "t", "i", "o", "n", " ", "i", "n", " ", "o", "r", "d", "e", "r",
     " ", "t", "o", " ", "m", "a", "k", "e", " ", "t", "h", "e", " ", "s", "t", "o",
     "r", "y", " ", "p", "e", "r", "s", "o", "n", "a", "l", "i", "z", "e", "d", ".",
     "c", "r", "e", "a", "t", "e", " ", "t", "h", "e", " ", "e", "n", "t", "i", "r",
     "e", " ", "s", "t", "o", "r", "y", ",", " ", "w", "e", "a", "v", "i", "n", "g",
     " ", "i", "n", " ", "e", "l", "e", "m", "e", "n", "t", "s", " ", "o", "f", " ",
     "t", "h", "e", "i", "r", " ", "i", "n", "f", "o", "r", "m", "a", "t", "i", "o",
     "n", ",", " ", "a", "n", "d", " ", "m", "a", "k", "e", " ", "i", "t", " ", "i",
     "n", "t", "e", "r", "a", "c", "t", "i", "v", "e", ",", " ", "o", "c", "c", "a",
     "s", "i", "o", "n", "a", "l", "l", "y", " ", "i", "n", "t", "e", "r", "a", "t",
     "i", "n", "g", " ", "w", "i", "t", "h", " ", "t", "h", "e", " ", "u", "s", "e",
     "r", ".", "d", "o", " ", "n", "o", "t", " ", "e", "n", "d", " ", "o", "n", " ",
     "a", " ", "s", "t", "a", "t", "e", "m", "e", "n", "t", ",", " ", "w", "h", "e",
     "r", "e", " ", "t", "h", "e", " ", "u", "s", "e", "r", " ", "i", "s", " ", "n",
     "o", "t", " ", "e", "x", "p", "e", "c", "t", "e", "d", " ", "t", "o", " ", "r",
     "e", "s", "p", "o", "n", "d", ".", "w", "h", "e", "n", " ", "i", "n", "t", "e",
     "r", "r", "u", "p", "t", "e", "d", ",", " ", "a", "s", "k", " ", "i", "f", " ",
     "t", "h", "e", " ", "u", "s", "e", "r", " ", "w", "o", "u", "l", "d", " ", "l",
     "i", "k", "e", " ", "t", "o", " ", "c", "o", "n", "t", "i", "n", "u", "e", " ",
     "o", "r", " ", "e", "n", "d", ".", "T", "h", "e", " ", "u", "s", "e", "r", "'",
     "s", " ", "n", "a", "m", "e", " ", "i", "s", " " >>

FromLiteral == << ",", " ", "f", "r", "o", "m", " " >>

Period == << "." >>

StartLine ==
  <<
     "L", "e", "t", "'", "s", " ", "s", "t", "a", "r", "t", " ", "t", "h", "e", " ",
     "s", "t", "o", "r", "y", "!" >>

GoodbyeLiteral ==
  <<
     "s", "a", "y", " ", "g", "o", "o", "d", "b", "y", "e", " ", "t", "o", " " >>

NoneRepr == << "N", "o", "n", "e" >>

\* ---- pure helpers ----
RECURSIVE SeqsUpTo(_, _)
SeqsUpTo(chars, n) ==
  IF n = 0 THEN { << >> }
  ELSE LET shorter == SeqsUpTo(chars, n - 1)
       IN  shorter \cup { Append(s, c) : s \in shorter, c \in chars }

\* the non-empty strings the language model may extract as arguments
Names == SeqsUpTo(NameChars, MaxNameLen) \ { << >> }
Locations == SeqsUpTo(LocChars, MaxLocLen) \ { << >> }

\* Python's `sub in text`
Contains(text, sub) ==
  \E i \in 1..(Len(text) - Len(sub) + 1) : SubSeq(text, i, i + Len(sub) - 1) = sub

\* Python's text.endswith(sub)
EndsWith(text, sub) ==
  /\ Len(sub) <= Len(text)
  /\ SubSeq(text, Len(text) - Len(sub) + 1, Len(text)) = sub

\* f"{value}" of an Optional[str]
Format(opt) == IF opt = None THEN NoneRepr ELSE opt[1]

\* ---- the environment block ----
required_env_vars ==
  << << "LIVEKIT_URL", "LiveKit server URL" >>,
     << "LIVEKIT_API_KEY", "LiveKit API key" >>,
     << "LIVEKIT_API_SECRET", "LiveKit API secret" >>,
     << "OPENAI_API_KEY", "OpenAI API key" >> >>

optional_env_vars ==
  << << "DEEPGRAM_API_KEY", "Deepgram API key (fallback to OpenAI STT if missing)" >>,
     << "ELEVEN_API_KEY", "ElevenLabs API key" >> >>

KeyVars == { required_env_vars[i][1] : i \in 1..Len(required_env_vars) }
             \cup { optional_env_vars[i][1] : i \in 1..Len(optional_env_vars) }

\* values a key variable may hold in os.environ: absent, empty, or a key
KeyValues == { None, Some(""), Some("key") }
HealthPortValues == { None, Some("8080"), Some("8081"), Some("abc") }
PortValues == { None, Some("8080"), Some("8081") }

Environments ==
  { e \in [ KeyVars \cup { "HEALTH_PORT", "PORT" } ->
              KeyValues \cup HealthPortValues \cup PortValues ] :
      /\ \A v \in KeyVars : e[v] \in KeyValues
      /\ e["HEALTH_PORT"] \in HealthPortValues
      /\ e["PORT"] \in PortValues }

\* int(s): None stands for the ValueError
ParseInt(s) ==
  CASE s = "8080" -> Some(8080)
    [] s = "8081" -> Some(8081)
    [] OTHER -> None

\* os.getenv(var, default)
GetEnv(e, var, default) == IF e[var] = None THEN default ELSE e[var][1]

\* `not os.getenv(var)`: unset or empty
Falsy(e, var) == e[var] = None \/ e[var] = Some("")

\* the loop `for var, description in vars.items(): if not os.getenv(var): append`
RECURSIVE MissingFrom(_, _, _)
MissingFrom(e, vars, i) ==
  IF i > Len(vars) THEN << >>
  ELSE IF Falsy(e, vars[i][1])
       THEN << vars[i] >> \o MissingFrom(e, vars, i + 1)
       ELSE MissingFrom(e, vars, i + 1)

\* a slip: the optional variables checked as required ones
missing_required_WithOptional(e) ==
  MissingFrom(e, required_env_vars \o optional_env_vars, 1)

missing_required(e) == MissingFrom(e, required_env_vars, 1)

missing_optional(e) == MissingFrom(e, optional_env_vars, 1)

\* ---- log records ----
LogRecord(level, text) ==
  [ level |-> level, text |-> text, port |-> 0, items |-> << >>,
    data |-> [ name |-> None, location |-> None ] ]

\* ---- the personas ----
StoryData == [ name |-> None, location |-> None ]

IntroAgent ==
  [ kind |-> "IntroAgent",
    instructions |-> common_instructions \o IntroTail,
    llm |-> None, tts |-> None ]

\* a slip: the location left out of the instructions
StoryInstructions_NoLocation(name, location) ==
  common_instructions \o StoryMiddle \o name \o FromLiteral \o name \o Period

StoryInstructions(name, location) ==
  common_instructions \o StoryMiddle \o name \o FromLiteral \o location \o Period

StoryAgent(name, location) ==
  [ kind |-> "StoryAgent",
    instructions |-> StoryInstructions(name, location),
    llm |-> Some("gpt-4o-mini"), tts |-> Some("elevenlabs") ]

\* what a function tool hands back to the session
ToolOutput(agent_task, output, exception) ==
  [ agent_task |-> agent_task, output |-> output, exception |-> exception ]

\* a slip: the two arguments stored in each other's field
GatheredData_Swapped(name, location) ==
  [ name |-> Some(location), location |-> Some(name) ]

\* the assignments of information_gathered to context.userdata
GatheredData(name, location) == [ name |-> Some(name), location |-> Some(location) ]

\* a slip: the agent handed back is another IntroAgent
GatheredReturn_Self(name, location) ==
  ToolOutput(Some(IntroAgent), Some(StartLine), FALSE)

\* the value information_gathered returns
GatheredReturn(name, location) ==
  ToolOutput(Some(StoryAgent(name, location)), Some(StartLine), FALSE)

\* the instructions of the goodbye message
FarewellInstructions(data) == GoodbyeLiteral \o Format(data.name)

\* story_finished returns nothing
FinishedReturn == ToolOutput(None, None, FALSE)

NoCall == [ fn |-> "none", name |-> << >>, location |-> << >> ]

VARIABLES
  environ,        \* os.environ after load_dotenv()
  pc,             \* position of the main thread
  raised,         \* the exception that ended the main thread, if any
  log,            \* the records emitted through logger
  calls,          \* the calls the __main__ block has made, in order
  healthThread,   \* the background thread of the health server
  healthFailure,  \* where the health server failed, if it did
  workerPort,     \* the port handed to WorkerOptions
  vad,            \* proc.userdata["vad"]
  job,            \* position of entrypoint
  primaryAttempts,   \* constructions of deepgram.STT
  secondaryAttempts, \* constructions of openai.STT
  session,        \* the AgentSession entrypoint built
  userdata,       \* session.userdata, a StoryData
  active,         \* the agents the session is running
  activations,    \* kinds of the agents the session has activated, in order
  inflight,       \* generations the session is producing
  toolCalls,      \* function calls of the current turn not yet executed
  toolOutputs,    \* outputs of the function calls of the current turn
  lastCall,       \* the function call executed last
  sfpc,           \* position of story_finished
  farewell,       \* instructions of the goodbye generation, once requested
  events,         \* effects of the current story_finished call, in order
  room            \* the LiveKit room

bootVars == << environ, pc, raised, log, calls, healthThread, healthFailure,
               workerPort, vad >>

jobVars == << job, primaryAttempts, secondaryAttempts, session >>

sessionVars == << userdata, active, activations, inflight, toolCalls,
                  toolOutputs, lastCall, sfpc, farewell, events, room >>

vars == << bootVars, jobVars, sessionVars >>

\* ---- module import: validation of the environment ----
load_module ==
  /\ pc = "import"
  /\ IF missing_required(environ) # << >>
     THEN /\ log' = log \cup
                { [ LogRecord("error", "Missing required environment variables")
                      EXCEPT !.items = missing_required(environ) ] }
          /\ raised' = Some([ type |-> "ValueError",
                              items |-> missing_required(environ) ])
          /\ pc' = "exit"
     ELSE /\ log' = IF missing_optional(environ) # << >>
                    THEN log \cup
                           { [ LogRecord("warning", "Missing optional environment variables")
                                 EXCEPT !.items = missing_optional(environ) ] }
                    ELSE log
          /\ raised' = raised
          /\ pc' = "main"
  /\ UNCHANGED << environ, calls, healthThread, healthFailure, workerPort, vad >>
  /\ UNCHANGED << jobVars, sessionVars >>

\* ---- the auxiliary health server ----
HealthStarted(port) ==
  [ LogRecord("info", "Health server started on port") EXCEPT !.port = port ]

HealthWarning == LogRecord("warning", "Failed to start health server")

\* the whole function: any exception inside the try block is logged and dropped
start_simple_health_server ==
  /\ pc = "main"
  /\ \E appOk \in BOOLEAN, threadOk \in BOOLEAN :
       LET health_port == ParseInt(GetEnv(environ, "HEALTH_PORT", "8080"))
           failure == IF health_port = None THEN Some("port")
                      ELSE IF ~appOk THEN Some("app")
                      ELSE IF ~threadOk THEN Some("thread")
                      ELSE None
       IN  IF failure = None
           THEN /\ healthThread' = [ state |-> "starting", port |-> health_port[1] ]
                /\ log' = log \cup { HealthStarted(health_port[1]) }
                /\ healthFailure' = healthFailure
           ELSE /\ healthThread' = healthThread
                /\ log' = log \cup { HealthWarning }
                /\ healthFailure' = failure
  /\ calls' = Append(calls, "start_simple_health_server")
  /\ pc' = "main_port"
  /\ UNCHANGED << environ, raised, workerPort, vad >>
  /\ UNCHANGED << jobVars, sessionVars >>

\* run_server in the background thread: uvicorn binds the port and serves
run_server_serves ==
  /\ healthThread.state = "starting"
  /\ healthThread' = [ healthThread EXCEPT !.state = "serving" ]
  /\ UNCHANGED << environ, pc, raised, log, calls, healthFailure, workerPort, vad >>
  /\ UNCHANGED << jobVars, sessionVars >>

\* run_server in the background thread: uvicorn.run fails (the port is
\* taken); the exception ends the thread, outside the try block above
run_server_fails ==
  /\ healthThread.state = "starting"
  /\ healthThread' = [ healthThread EXCEPT !.state = "dead" ]
  /\ healthFailure' = Some("serve")
  /\ UNCHANGED << environ, pc, raised, log, calls, workerPort, vad >>
  /\ UNCHANGED << jobVars, sessionVars >>

\* ---- the __main__ block after the health server ----
\* a slip: the port of the health server read for the worker
main_port_HealthPort(e) == ParseInt(GetEnv(e, "HEALTH_PORT", "8080"))

\* int(os.environ.get('PORT', 8081))
main_port(e) ==
  IF e["PORT"] = None THEN Some(8081) ELSE ParseInt(e["PORT"][1])

main ==
  /\ pc = "main_port"
  /\ main_port(environ) # None
  /\ workerPort' = main_port(environ)
  /\ log' = log \cup
       { [ LogRecord("info", "Starting LiveKit agent with health check on port")
             EXCEPT !.port = main_port(environ)[1] ],
         LogRecord("info", "Environment: PORT"),
         LogRecord("info", "LiveKit URL") }
  /\ calls' = Append(calls, "run_app")
  /\ pc' = "worker"
  /\ UNCHANGED << environ, raised, healthThread, healthFailure, vad >>
  /\ UNCHANGED << jobVars, sessionVars >>

\* cli.run_app raises: logged and re-raised
run_app_raises ==
  /\ pc = "worker"
  /\ job = "none"
  /\ log' = log \cup { LogRecord("error", "Failed to start LiveKit agent") }
  /\ raised' = Some([ type |-> "Exception", items |-> << >> ])
  /\ pc' = "exit"
  /\ UNCHANGED << environ, calls, healthThread, healthFailure, workerPort, vad >>
  /\ UNCHANGED << jobVars, sessionVars >>

prewarm ==
  /\ pc = "worker"
  /\ vad = None
  /\ vad' = Some("silero")
  /\ UNCHANGED << environ, pc, raised, log, calls, healthThread, healthFailure,
                  workerPort >>
  /\ UNCHANGED << jobVars, sessionVars >>

\* a slip: no fallback, the primary provider used whatever happened
stt_provider_NoFallback(primaryOk) == "deepgram.STT"

\* the provider the try/except leaves in stt_provider
stt_provider(primaryOk) == IF primaryOk THEN "deepgram.STT" ELSE "openai.STT"

\* ---- entrypoint up to the await of session.start ----
\* deepgram.STT(model="nova-3") raises without its key and may raise otherwise
entrypoint ==
  /\ pc = "worker"
  /\ vad # None
  /\ job = "none"
  /\ \E constructed \in BOOLEAN :
       LET primaryOk == constructed /\ ~Falsy(environ, "DEEPGRAM_API_KEY")
       IN  /\ primaryAttempts' = primaryAttempts + 1
           /\ IF primaryOk
              THEN /\ log' = log \cup { LogRecord("info", "Using Deepgram STT") }
                   /\ secondaryAttempts' = secondaryAttempts
              ELSE /\ log' = log \cup
                        { LogRecord("warning", "Failed to initialize Deepgram STT") }
                   /\ secondaryAttempts' = secondaryAttempts + 1
           /\ session' = Some([ stt |-> stt_provider(primaryOk), llm |-> "gpt-4o-mini",
                                tts |-> "elevenlabs", vad |-> vad[1] ])
  /\ userdata' = StoryData
  /\ job' = "start"
  /\ UNCHANGED << environ, pc, raised, calls, healthThread, healthFailure,
                  workerPort, vad >>
  /\ UNCHANGED << active, activations, inflight, toolCalls, toolOutputs, lastCall,
                  sfpc, farewell, events, room >>

\* await session.start(agent=IntroAgent(), ...): the session runs the agent,
\* whose on_enter asks for a reply
StartAgent == IntroAgent

session_start ==
  /\ job = "start"
  /\ active' = { StartAgent }
  /\ activations' = Append(activations, StartAgent.kind)
  /\ inflight' = { "reply" }
  /\ job' = "running"
  /\ UNCHANGED bootVars
  /\ UNCHANGED << primaryAttempts, secondaryAttempts, session >>
  /\ UNCHANGED << userdata, toolCalls, toolOutputs, lastCall, sfpc, farewell,
                  events, room >>

\* ---- the session: function calls of the running agent ----
Running == job = "running" /\ room.state = "open"

ActiveKinds == { a.kind : a \in active }

\* the language model answers with n calls to the tools of the running agent
llm_turn ==
  /\ Running
  /\ active # {}
  /\ toolCalls = 0
  /\ toolOutputs = << >>
  /\ sfpc = "idle"
  /\ \E n \in 1..MaxCalls : toolCalls' = n
  /\ inflight' = inflight \cup { "reply" }
  /\ UNCHANGED << bootVars, jobVars >>
  /\ UNCHANGED << userdata, active, activations, toolOutputs, lastCall, sfpc,
                  farewell, events, room >>

\* a generation plays out
speech_done ==
  /\ Running
  /\ "reply" \in inflight
  /\ inflight' = inflight \ { "reply" }
  /\ UNCHANGED << bootVars, jobVars >>
  /\ UNCHANGED << userdata, active, activations, toolCalls, toolOutputs, lastCall,
                  sfpc, farewell, events, room >>

\* IntroAgent.information_gathered(context, name, location)
information_gathered ==
  /\ Running
  /\ "IntroAgent" \in ActiveKinds
  /\ toolCalls > 0
  /\ sfpc = "idle"
  /\ \E name \in Names, location \in Locations :
       /\ userdata' = GatheredData(name, location)
       /\ log' = log \cup
            { [ LogRecord("info", "switching to the story agent with the provided user data")
                  EXCEPT !.data = GatheredData(name, location) ] }
       /\ toolOutputs' = Append(toolOutputs, GatheredReturn(name, location))
       /\ lastCall' = [ fn |-> "information_gathered", name |-> name,
                        location |-> location ]
  /\ toolCalls' = toolCalls - 1
  /\ UNCHANGED << environ, pc, raised, calls, healthThread, healthFailure,
                  workerPort, vad >>
  /\ UNCHANGED jobVars
  /\ UNCHANGED << active, activations, inflight, sfpc, farewell, events, room >>

\* a slip: the interrupt left out
Interrupt_Nothing(generations) == generations

\* session.interrupt(): what is left of the generations in flight
Interrupt(generations) == { }

\* a slip: story_finished resets the shared state
story_finished_ClearsData ==
  /\ Running
  /\ "StoryAgent" \in ActiveKinds
  /\ toolCalls > 0
  /\ sfpc = "idle"
  /\ inflight' = Interrupt(inflight) \cup { "farewell" }
  /\ farewell' = Some([ instructions |-> FarewellInstructions(userdata),
                        allow_interruptions |-> FALSE ])
  /\ events' = << << "interrupt", "" >>, << "generate_reply", "" >> >>
  /\ lastCall' = [ fn |-> "story_finished", name |-> << >>, location |-> << >> ]
  /\ sfpc' = "generate_reply"
  /\ userdata' = StoryData
  /\ UNCHANGED << bootVars, jobVars >>
  /\ UNCHANGED << active, activations, toolCalls, toolOutputs, room >>

\* StoryAgent.story_finished up to the await of generate_reply
story_finished ==
  /\ Running
  /\ "StoryAgent" \in ActiveKinds
  /\ toolCalls > 0
  /\ sfpc = "idle"
  /\ inflight' = Interrupt(inflight) \cup { "farewell" }
  /\ farewell' = Some([ instructions |-> FarewellInstructions(userdata),
                        allow_interruptions |-> FALSE ])
  /\ events' = << << "interrupt", "" >>, << "generate_reply", "" >> >>
  /\ lastCall' = [ fn |-> "story_finished", name |-> << >>, location |-> << >> ]
  /\ sfpc' = "generate_reply"
  /\ UNCHANGED << bootVars, jobVars >>
  /\ UNCHANGED << userdata, active, activations, toolCalls, toolOutputs, room >>

\* the goodbye has played out: story_finished goes on to the delete_room call
farewell_played ==
  /\ sfpc = "generate_reply"
  /\ inflight' = inflight \ { "farewell" }
  /\ events' = events \o << << "played", "" >>, << "delete_room", room.name >> >>
  /\ sfpc' = "delete_room"
  /\ UNCHANGED << bootVars, jobVars >>
  /\ UNCHANGED << userdata, active, activations, toolCalls, toolOutputs, lastCall,
                  farewell, room >>

\* a slip: the exception of generate_reply swallowed, delete_room still called
farewell_fails_Swallowed ==
  /\ sfpc = "generate_reply"
  /\ inflight' = inflight \ { "farewell" }
  /\ events' = events \o << << "raised", "generate_reply" >>,
                            << "delete_room", room.name >> >>
  /\ sfpc' = "delete_room"
  /\ UNCHANGED << bootVars, jobVars >>
  /\ UNCHANGED << userdata, active, activations, toolCalls, toolOutputs, lastCall,
                  farewell, room >>

\* generate_reply raises: the exception leaves story_finished
farewell_fails ==
  /\ sfpc = "generate_reply"
  /\ inflight' = inflight \ { "farewell" }
  /\ events' = Append(events, << "raised", "generate_reply" >>)
  /\ toolOutputs' = Append(toolOutputs, ToolOutput(None, None, TRUE))
  /\ toolCalls' = toolCalls - 1
  /\ sfpc' = "idle"
  /\ UNCHANGED << bootVars, jobVars >>
  /\ UNCHANGED << userdata, active, activations, lastCall, farewell, room >>

\* delete_room succeeds: story_finished returns
room_deleted ==
  /\ sfpc = "delete_room"
  /\ room' = [ room EXCEPT !.state = "deleted" ]
  /\ events' = Append(events, << "deleted", room.name >>)
  /\ toolOutputs' = Append(toolOutputs, FinishedReturn)
  /\ toolCalls' = toolCalls - 1
  /\ sfpc' = "idle"
  /\ UNCHANGED << bootVars, jobVars >>
  /\ UNCHANGED << userdata, active, activations, inflight, lastCall, farewell >>

\* delete_room raises: the exception leaves story_finished
delete_room_fails ==
  /\ sfpc = "delete_room"
  /\ events' = Append(events, << "raised", "delete_room" >>)
  /\ toolOutputs' = Append(toolOutputs, ToolOutput(None, None, TRUE))
  /\ toolCalls' = toolCalls - 1
  /\ sfpc' = "idle"
  /\ UNCHANGED << bootVars, jobVars >>
  /\ UNCHANGED << userdata, active, activations, inflight, lastCall, farewell, room >>

\* the agents handed back by the function calls of the turn
RECURSIVE AgentTasks(_)
AgentTasks(outputs) ==
  IF outputs = << >> THEN << >>
  ELSE IF Head(outputs).agent_task # None
       THEN << Head(outputs).agent_task[1] >> \o AgentTasks(Tail(outputs))
       ELSE AgentTasks(Tail(outputs))

\* the session consumes the outputs of the turn: one returned agent replaces
\* the running one and is entered; several returned agents are an error and
\* the running agent stays
apply_tool_outputs ==
  /\ Running
  /\ toolCalls = 0
  /\ toolOutputs # << >>
  /\ sfpc = "idle"
  /\ LET tasks == AgentTasks(toolOutputs)
     IN  IF Len(tasks) = 1
         THEN /\ active' = { tasks[1] }
              /\ activations' = Append(activations, tasks[1].kind)
              /\ inflight' = { "reply" }
         ELSE UNCHANGED << active, activations, inflight >>
  /\ toolOutputs' = << >>
  /\ UNCHANGED << bootVars, jobVars >>
  /\ UNCHANGED << userdata, toolCalls, lastCall, sfpc, farewell, events, room >>

\* ---- specifications ----
RoomName == "story-room"

Init ==
  /\ environ \in Environments
  /\ pc = "import"
  /\ raised = None
  /\ log = { }
  /\ calls = << >>
  /\ healthThread = [ state |-> "none", port |-> 0 ]
  /\ healthFailure = None
  /\ workerPort = None
  /\ vad = None
  /\ job = "none"
  /\ primaryAttempts = 0
  /\ secondaryAttempts = 0
  /\ session = None
  /\ userdata = StoryData
  /\ active = { }
  /\ activations = << >>
  /\ inflight = { }
  /\ toolCalls = 0
  /\ toolOutputs = << >>
  /\ lastCall = NoCall
  /\ sfpc = "idle"
  /\ farewell = None
  /\ events = << >>
  /\ room = [ name |-> RoomName, state |-> "open" ]

Next ==
  \/ load_module
  \/ start_simple_health_server
  \/ run_server_serves
  \/ run_server_fails
  \/ main
  \/ run_app_raises
  \/ prewarm
  \/ entrypoint
  \/ session_start

Spec == Init /\ [][Next]_vars

\* one session, followed from a process whose environment is complete
SessionEnviron ==
  [ v \in KeyVars \cup { "HEALTH_PORT", "PORT" } |->
      IF v \in KeyVars THEN Some("key") ELSE None ]

SessionInit == Init /\ environ = SessionEnviron

SessionNext ==
  \/ Next
  \/ llm_turn
  \/ speech_done
  \/ information_gathered
  \/ story_finished
  \/ farewell_played
  \/ farewell_fails
  \/ room_deleted
  \/ delete_room_fails
  \/ apply_tool_outputs

SessionSpec == SessionInit /\ [][SessionNext]_vars

\* ---- properties ----
LastOutput == toolOutputs[Len(toolOutputs)]

ExpectedLine ==
  << "L", "e", "t", "'", "s", " ", "s", "t", "a", "r", "t", " ", "t", "h", "e", " ",
     "s", "t", "o", "r", "y", "!" >>

\* C1: after information_gathered(name, location) the shared state is exactly
\* {name, location} and the call has returned a StoryAgent whose instructions
\* contain name and location, together with the line "Let's start the story!"
C1_GatheredContract ==
  (lastCall.fn = "information_gathered" /\ toolOutputs # << >>) =>
     /\ userdata = [ name |-> << lastCall.name >>, location |-> << lastCall.location >> ]
     /\ ~LastOutput.exception
     /\ LastOutput.agent_task # None
     /\ LastOutput.agent_task[1].kind = "StoryAgent"
     /\ Contains(LastOutput.agent_task[1].instructions, lastCall.name)
     /\ Contains(LastOutput.agent_task[1].instructions, lastCall.location)
     /\ LastOutput.output = << ExpectedLine >>

C1_Witness ==
  /\ lastCall.fn = "information_gathered"
  /\ toolOutputs # << >>
  /\ lastCall.name = << "A" >>
  /\ lastCall.location = << "L" >>

\* C2 as stated: once set, name and location never change value again
C2_WriteOnce ==
  [][ /\ (userdata.name # None => userdata'.name = userdata.name)
      /\ (userdata.location # None => userdata'.location = userdata.location) ]_vars

\* C2 amended: a field that is set is never unset again, only
\* information_gathered changes the shared state, and it never changes while
\* a StoryAgent is running
C2_NeverResetNorWrittenByStoryteller ==
  [][ /\ (userdata.name # None => userdata'.name # None)
      /\ (userdata.location # None => userdata'.location # None)
      /\ (userdata' # userdata => lastCall'.fn = "information_gathered")
      /\ ("StoryAgent" \in ActiveKinds => userdata' = userdata) ]_vars

C2_Witness ==
  /\ "StoryAgent" \in ActiveKinds
  /\ sfpc = "delete_room"
  /\ userdata.name # None
  /\ userdata.location # None

\* C3: story_finished interrupts, then asks for the goodbye with interruptions
\* disabled and waits for it, then calls delete_room for the room's name: no
\* other generation is in flight with the goodbye, and delete_room is not
\* called before the goodbye has played out
C3_FarewellOrder ==
  /\ \A i \in 1..Len(events) :
       events[i][1] = "generate_reply" => (i > 1 /\ events[i - 1][1] = "interrupt")
  /\ \A i \in 1..Len(events) :
       events[i][1] = "delete_room" =>
         /\ i > 2
         /\ events[i - 1][1] = "played"
         /\ \E j \in 1..(i - 2) : events[j][1] = "generate_reply"
         /\ events[i][2] = room.name
  /\ "farewell" \in inflight =>
         /\ inflight = { "farewell" }
         /\ farewell # None
         /\ ~farewell[1].allow_interruptions
         /\ sfpc = "generate_reply"
  /\ room.state = "deleted" => \E i \in 1..Len(events) : events[i][1] = "played"

C3_Witness ==
  /\ room.state = "deleted"
  /\ Len(events) = 5

\* C6: at most one agent runs at a time; the session starts with the
\* IntroAgent, the hand-off replaces it by the StoryAgent, and the IntroAgent
\* never runs again
C6_SingleActivePersona ==
  /\ Cardinality(active) <= 1
  /\ activations \in { << >>, << "IntroAgent" >>, << "IntroAgent", "StoryAgent" >> }
  /\ activations # << >> => ActiveKinds = { activations[Len(activations)] }
  /\ job = "running" => activations # << >>

C6_Witness == ActiveKinds = { "StoryAgent" } /\ Len(activations) = 2

Occurrences(op) == { i \in 1..Len(events) : events[i][1] = op }

\* C8: an exception of the goodbye generation leaves story_finished before
\* delete_room is called; an exception of delete_room leaves story_finished
\* after the goodbye has played; nothing is tried twice
C8_NoLocalRecovery ==
  /\ (\E i \in 1..Len(events) : events[i] = << "raised", "generate_reply" >>) =>
        /\ Occurrences("delete_room") = { }
        /\ Occurrences("played") = { }
        /\ sfpc = "idle"
        /\ room.state = "open"
        /\ toolOutputs # << >> => LastOutput.exception
  /\ (\E i \in 1..Len(events) : events[i] = << "raised", "delete_room" >>) =>
        /\ Occurrences("played") # { }
        /\ sfpc = "idle"
        /\ room.state = "open"
        /\ toolOutputs # << >> => LastOutput.exception
  /\ Cardinality(Occurrences("generate_reply")) <= 1
  /\ Cardinality(Occurrences("delete_room")) <= 1
  /\ Cardinality(Occurrences("raised")) <= 1

C8_Witness ==
  /\ events # << >>
  /\ events[Len(events)] = << "raised", "generate_reply" >>
  /\ toolOutputs # << >>

UsersNameIs ==
  << "T", "h", "e", " ", "u", "s", "e", "r", "'", "s", " ", "n", "a", "m", "e", " ",
     "i", "s", " " >>

SayGoodbyeTo ==
  << "s", "a", "y", " ", "g", "o", "o", "d", "b", "y", "e", " ", "t", "o", " " >>

\* C9: while a StoryAgent runs, name and location of the shared state are set
\* and are the ones written into its instructions, and the goodbye is
\* addressed to that name
C9_StorytellerMatchesSharedState ==
  \A a \in active :
    a.kind = "StoryAgent" =>
      /\ userdata.name # None
      /\ userdata.location # None
      /\ EndsWith(a.instructions,
                  UsersNameIs \o userdata.name[1] \o << ",", " ", "f", "r", "o", "m", " " >>
                    \o userdata.location[1] \o << "." >>)
      /\ farewell # None => farewell[1].instructions = SayGoodbyeTo \o userdata.name[1]

C9_Witness ==
  /\ "StoryAgent" \in ActiveKinds
  /\ farewell # None
  /\ userdata.name = << << "A", "A" >> >>

Required == { "LIVEKIT_URL", "LIVEKIT_API_KEY", "LIVEKIT_API_SECRET", "OPENAI_API_KEY" }

Description(var) ==
  CASE var = "LIVEKIT_URL" -> "LiveKit server URL"
    [] var = "LIVEKIT_API_KEY" -> "LiveKit API key"
    [] var = "LIVEKIT_API_SECRET" -> "LiveKit API secret"
    [] var = "OPENAI_API_KEY" -> "OpenAI API key"

\* a variable is missing when it is unset or set to the empty string
Missing == { v \in Required : environ[v] = << >> \/ environ[v] = << "" >> }

\* C4: when required variables are missing the import fails with a ValueError
\* naming exactly the missing variables and their descriptions, and nothing is
\* started; when none is missing the import raises nothing
C4_MissingRequired ==
  pc # "import" =>
    IF Missing # { }
    THEN /\ pc = "exit"
         /\ raised # None
         /\ raised[1].type = "ValueError"
         /\ { raised[1].items[i] : i \in 1..Len(raised[1].items) }
              = { << v, Description(v) >> : v \in Missing }
         /\ Len(raised[1].items) = Cardinality(Missing)
         /\ calls = << >>
         /\ job = "none"
         /\ session = None
         /\ active = { }
    ELSE raised # None => raised[1].type # "ValueError"

C4_Witness ==
  /\ pc = "exit"
  /\ raised # None
  /\ raised[1].type = "ValueError"
  /\ Len(raised[1].items) = 2
  /\ environ["ELEVEN_API_KEY"] = << "key" >>

DeepgramWarning == LogRecord("warning", "Failed to initialize Deepgram STT")

\* C5: deepgram.STT is constructed once; if that fails a warning is logged and
\* openai.STT is constructed once and given to the session, and the process
\* goes on; otherwise deepgram.STT is given to the session and openai.STT is
\* not constructed
C5_SttFallback ==
  /\ job = "none" => (primaryAttempts = 0 /\ secondaryAttempts = 0 /\ session = None)
  /\ job # "none" =>
       /\ primaryAttempts = 1
       /\ session # None
       /\ raised = None
       /\ pc = "worker"
       /\ IF DeepgramWarning \in log
          THEN secondaryAttempts = 1 /\ session[1].stt = "openai.STT"
          ELSE secondaryAttempts = 0 /\ session[1].stt = "deepgram.STT"
       /\ (environ["DEEPGRAM_API_KEY"] \in { << >>, << "" >> }) => DeepgramWarning \in log

C5_Witness ==
  /\ job = "start"
  /\ secondaryAttempts = 1
  /\ environ["DEEPGRAM_API_KEY"] = << "key" >>

StartedRecords == { r \in log : r.text = "Health server started on port" }

\* C7 as stated: whenever the health server fails to start, a warning is
\* logged, "Health server started" is not, and the main thread goes on to
\* run_app
C7_HealthFailureLogged ==
  healthFailure # None =>
    /\ \E r \in log : r.level = "warning" /\ r.text = "Failed to start health server"
    /\ StartedRecords = { }
    /\ pc = "exit" => \E i \in 1..Len(calls) : calls[i] = "run_app"

BothListeners == healthThread.state # "none" /\ workerPort # None

StartOrder ==
  calls \in { << >>, << "start_simple_health_server" >>,
              << "start_simple_health_server", "run_app" >> }

\* C10 as stated: the health server is started before the worker and its port
\* always differs from the worker's
C10_PortsDiffer ==
  /\ StartOrder
  /\ BothListeners => healthThread.port # workerPort[1]

PortNumber(value) == IF value = "8080" THEN 8080 ELSE 8081

\* C10 amended: the health server is started before the worker; its port is
\* HEALTH_PORT or 8080, the worker's is PORT or 8081; the two differ when both
\* variables are unset, and otherwise exactly when the configured numbers do
C10_DefaultPortsDiffer ==
  /\ StartOrder
  /\ healthThread.state # "none" =>
       healthThread.port = IF environ["HEALTH_PORT"] = << >> THEN 8080
                           ELSE PortNumber(environ["HEALTH_PORT"][1])
  /\ workerPort # None =>
       workerPort[1] = IF environ["PORT"] = << >> THEN 8081
                       ELSE PortNumber(environ["PORT"][1])
  /\ (BothListeners /\ environ["HEALTH_PORT"] = << >> /\ environ["PORT"] = << >>) =>
       healthThread.port # workerPort[1]

C10_Witness ==
  /\ BothListeners
  /\ environ["HEALTH_PORT"] = << >>
  /\ environ["PORT"] = << >>
  /\ calls = << "start_simple_health_server", "run_app" >>

====
